---- MODULE Spec2Model ----
(***************************************************************************)
(* Hard-disk gas in a 2D box: the classes Cajas and Esfera (Esfera.hpp)   *)
(* and the simulation loop of main (main.cpp).                            *)
(*                                                                         *)
(* Numbers.  The program computes in double.  The model computes in exact *)
(* rationals <<num, den>> (den > 0, lowest terms); <<0,0>> is NaN and     *)
(* <<1,0>>, <<-1,0>> are +-infinity, the results IEEE division gives for  *)
(* a zero divisor.  Rounding error is not modelled.  std::sqrt appears in *)
(* colision only through the unit normal (dx/dist, dy/dist); the products *)
(* the code forms with it are rational and are computed exactly (see      *)
(* colision).  Esfera::theta is a cache of atan2(vy, vx) that nothing     *)
(* reads; it is not part of the state.                                    *)
(*                                                                         *)
(* Indices.  esferas is a sequence: esferas[k] is the program's           *)
(* esferas[k-1].                                                          *)
(*                                                                         *)
(* Coupled Duffing oscillators: the classes OsciladorDuffing and           *)
(* IntegradorRK4 and their main (duffing_POO/src/main.cpp), under          *)
(* SpecDuffing.  Their arithmetic also follows NaN and the infinities      *)
(* through the operations, and takes a finite result beyond MaxDoble for   *)
(* an infinity, as a double does beyond DBL_MAX.  std::cos is modelled at  *)
(* the argument 0 only, so the forcing frequency omega is 0 in every run.  *)
(***************************************************************************)
EXTENDS Integers, Sequences, FiniteSets, TLC

\* ------------------------------------------------------------ rationals

Abs(a) == IF a < 0 THEN -a ELSE a

Sgn(a) == IF a < 0 THEN -1 ELSE IF a = 0 THEN 0 ELSE 1

\* (the remainder is computed once for the recursive call)
RECURSIVE GCD(_, _)
GCD(a, b) == IF b = 0 THEN a ELSE CHOOSE g \in {GCD(b, r) : r \in {a % b}} : TRUE

\* n/d in lowest terms, d # 0
Rat(n, d) ==
    LET g == GCD(Abs(n), Abs(d))
        s == IF d < 0 THEN -1 ELSE 1
    IN  <<(s * n) \div g, (s * d) \div g>>

Ent(k) == <<k, 1>>

NaN == <<0, 0>>

EsFinito(a) == a[2] # 0

Neg(a) == <<-a[1], a[2]>>

Add(a, b) ==
    LET g == GCD(a[2], b[2])
    IN  Rat(a[1] * (b[2] \div g) + b[1] * (a[2] \div g), (a[2] \div g) * b[2])

Sub(a, b) == Add(a, Neg(b))

Mul(a, b) ==
    LET g1 == GCD(Abs(a[1]), b[2])
        g2 == GCD(Abs(b[1]), a[2])
    IN  <<(a[1] \div g1) * (b[1] \div g2), (a[2] \div g2) * (b[2] \div g1)>>

\* IEEE division: x/0 is an infinity, 0/0 is NaN
Div(a, b) ==
    IF b[1] = 0
    THEN (IF a[1] = 0 THEN NaN ELSE <<Sgn(a[1]), 0>>)
    ELSE Mul(a, Rat(b[2], b[1]))

Leq(a, b) ==
    LET g == GCD(a[2], b[2])
    IN  a[1] * (b[2] \div g) <= b[1] * (a[2] \div g)

Sq(a) == Mul(a, a)

\* ---------------------------------------------------------------- bounds

\* main runs pasos = 300 steps; the model runs this many
MaxPasos == 12

\* largest number of spheres read
MaxN == 3

\* spheres whose coordinates leave this denominator are not followed further
MaxDen == 100

\* number of calls a driver of the classes makes
MaxOps == 4

\* --------------------------------------------------------- class Cajas

Getxmin(c) == c.xmin

Getxmax(c) == c.xmax

Getymin(c) == c.xmin

Getymax(c) == c.xmax

Getp(c) == c.p

CajasInicio(c, x1, x2, y1, y2) ==
    [c EXCEPT !.xmin = x1, !.xmax = x2, !.ymin = y1, !.ymax = y2]

\* a reset that keeps the accumulated sum and count
actualizarPresion_sinSuma(c) == [c EXCEPT !.p = Ent(0)]

\* a reset that keeps the last pressure
actualizarPresion_sinP(c) == [c EXCEPT !.pn = Ent(0), !.n = 0]

actualizarPresion(c) == [c EXCEPT !.p = Ent(0), !.pn = Ent(0), !.n = 0]

\* an accumulation that forgets the division by 3
calcularPresionN_sinTercio(c, mv2) ==
    [c EXCEPT !.pn = Add(c.pn, mv2), !.n = c.n + 1]

calcularPresionN(c, mv2) ==
    [c EXCEPT !.pn = Add(c.pn, Div(mv2, Ent(3))), !.n = c.n + 1]

calcularPresion(c) == [c EXCEPT !.p = Div(c.pn, Ent(c.n))]

\* --------------------------------------------------------- class Esfera

\* Getv() squared: vx*vx + vy*vy
Getv2(e) == Add(Sq(e.vx), Sq(e.vy))

EsferaInicio(m0, x0, y0, vx0, vy0, R0) ==
    [m |-> m0, x |-> x0, y |-> y0, vx |-> vx0, vy |-> vy0, R |-> R0]

muevase(e, t) ==
    [e EXCEPT !.x = Add(e.x, Mul(e.vx, t)), !.y = Add(e.y, Mul(e.vy, t))]

\* the test of the first if of rebotePared
CercaParedX(e, c) ==
    Leq(Sub(e.x, Getxmin(c)), e.R) \/ Leq(Sub(Getxmax(c), e.x), e.R)

\* the test of the second if of rebotePared
CercaParedY(e, c) ==
    Leq(Sub(e.y, Getymin(c)), e.R) \/ Leq(Sub(Getymax(c), e.y), e.R)

\* a reflection whose second branch reports no impact
rebotePared_sinMuestraY(e, c) ==
    LET fx == CercaParedX(e, c)
        e1 == IF fx THEN [e EXCEPT !.vx = Neg(e.vx)] ELSE e
        c1 == IF fx THEN calcularPresionN(c, Mul(e1.m, Getv2(e1))) ELSE c
        fy == CercaParedY(e1, c1)
        e2 == IF fy THEN [e1 EXCEPT !.vy = Neg(e1.vy)] ELSE e1
    IN  [e |-> e2, caja |-> c1, fx |-> fx, fy |-> fy,
         muestras |-> (IF fx THEN <<Mul(e1.m, Getv2(e1))>> ELSE <<>>)]

\* a reflection whose first branch turns the whole velocity around
rebotePared_ambas(e, c) ==
    LET fx == CercaParedX(e, c)
        e1 == IF fx THEN [e EXCEPT !.vx = Neg(e.vx), !.vy = Neg(e.vy)] ELSE e
        c1 == IF fx THEN calcularPresionN(c, Mul(e1.m, Getv2(e1))) ELSE c
        fy == CercaParedY(e1, c1)
        e2 == IF fy THEN [e1 EXCEPT !.vy = Neg(e1.vy)] ELSE e1
        c2 == IF fy THEN calcularPresionN(c1, Mul(e2.m, Getv2(e2))) ELSE c1
    IN  [e |-> e2, caja |-> c2, fx |-> fx, fy |-> fy,
         muestras |-> (IF fx THEN <<Mul(e1.m, Getv2(e1))>> ELSE <<>>)
                      \o (IF fy THEN <<Mul(e2.m, Getv2(e2))>> ELSE <<>>)]

\* the sphere and the box after e.rebotePared(c), the branches taken and the
\* arguments passed to calcularPresionN
rebotePared(e, c) ==
    LET fx == CercaParedX(e, c)
        e1 == IF fx THEN [e EXCEPT !.vx = Neg(e.vx)] ELSE e
        c1 == IF fx THEN calcularPresionN(c, Mul(e1.m, Getv2(e1))) ELSE c
        fy == CercaParedY(e1, c1)
        e2 == IF fy THEN [e1 EXCEPT !.vy = Neg(e1.vy)] ELSE e1
        c2 == IF fy THEN calcularPresionN(c1, Mul(e2.m, Getv2(e2))) ELSE c1
    IN  [e |-> e2, caja |-> c2, fx |-> fx, fy |-> fy,
         muestras |-> (IF fx THEN <<Mul(e1.m, Getv2(e1))>> ELSE <<>>)
                      \o (IF fy THEN <<Mul(e2.m, Getv2(e2))>> ELSE <<>>)]

\* dist2 of colision
Dist2(e, o) == Add(Sq(Sub(o.x, e.x)), Sq(Sub(o.y, e.y)))

\* the test dist2 <= Rsum * Rsum of colision
EnContacto(e, o) == Leq(Dist2(e, o), Sq(Add(e.R, o.R)))

\* a collision that leaves the other sphere's velocity as it was
colision_soloUna(e, o) ==
    LET dx    == Sub(o.x, e.x)
        dy    == Sub(o.y, e.y)
        dist2 == Add(Sq(dx), Sq(dy))
        k     == Div(Add(Mul(Sub(e.vx, o.vx), dx), Mul(Sub(e.vy, o.vy), dy)), dist2)
    IN  IF EnContacto(e, o) /\ dist2 # Ent(0)
        THEN <<[e EXCEPT !.vx = Sub(e.vx, Mul(k, dx)), !.vy = Sub(e.vy, Mul(k, dy))], o>>
        ELSE <<e, o>>

\* a collision that gives the other sphere the increment with the wrong sign
colision_signo(e, o) ==
    LET dx    == Sub(o.x, e.x)
        dy    == Sub(o.y, e.y)
        dist2 == Add(Sq(dx), Sq(dy))
        k     == Div(Add(Mul(Sub(o.vx, e.vx), dx), Mul(Sub(o.vy, e.vy), dy)), dist2)
    IN  IF EnContacto(e, o) /\ dist2 # Ent(0)
        THEN << [e EXCEPT !.vx = Add(e.vx, Mul(k, dx)),
                          !.vy = Add(e.vy, Mul(k, dy))],
                [o EXCEPT !.vx = Add(o.vx, Mul(k, dx)),
                          !.vy = Add(o.vy, Mul(k, dy))] >>
        ELSE <<e, o>>

\* <<e, o>> after e.colision(o).  With dist = sqrt(dist2), nx = dx/dist and
\* ny = dy/dist the code adds (vn2 - vn1)*nx to vx, where
\*   vn2 - vn1 = ((o.vx - vx)*dx + (o.vy - vy)*dy) / dist,
\* so the increment is k*dx with k = ((o.vx - vx)*dx + (o.vy - vy)*dy)/dist2.
colision(e, o) ==
    LET dx    == Sub(o.x, e.x)
        dy    == Sub(o.y, e.y)
        dist2 == Add(Sq(dx), Sq(dy))
        k     == Div(Add(Mul(Sub(o.vx, e.vx), dx), Mul(Sub(o.vy, e.vy), dy)), dist2)
    IN  IF EnContacto(e, o) /\ dist2 # Ent(0)
        THEN << [e EXCEPT !.vx = Add(e.vx, Mul(k, dx)),
                          !.vy = Add(e.vy, Mul(k, dy))],
                [o EXCEPT !.vx = Sub(o.vx, Mul(k, dx)),
                          !.vy = Sub(o.vy, Mul(k, dy))] >>
        ELSE <<e, o>>

\* ------------------------------------------------ doubles beyond the finite

\* the largest finite magnitude of a double (DBL_MAX), scaled down to the
\* integers of the model: a result beyond it is an infinity
MaxDoble == 1000

EsNaN(a) == a = NaN

EsInf(a) == a[2] = 0 /\ a[1] # 0

\* a finite result beyond the largest finite magnitude is an infinity
Rango(a) ==
    IF a[2] = 0 THEN a
    ELSE IF \/ Abs(a[1]) \div a[2] > MaxDoble
            \/ (Abs(a[1]) \div a[2] = MaxDoble /\ Abs(a[1]) % a[2] # 0)
         THEN <<Sgn(a[1]), 0>>
         ELSE a

\* (the operators of this section compute each operand once and then take
\* the result for its value)
Satura(a) == CHOOSE r \in {Rango(u) : u \in {a}} : TRUE

FNeg(a) == <<-a[1], a[2]>>

SumaIEEE(a, b) ==
    IF EsNaN(a) \/ EsNaN(b) THEN NaN
    ELSE IF EsInf(a) THEN (IF EsInf(b) /\ b # a THEN NaN ELSE a)
    ELSE IF EsInf(b) THEN b
    ELSE Satura(Add(a, b))

FAdd(a, b) == CHOOSE r \in {SumaIEEE(u[1], u[2]) : u \in {<<a, b>>}} : TRUE

FSub(a, b) == FAdd(a, FNeg(b))

ProductoIEEE(a, b) ==
    IF EsNaN(a) \/ EsNaN(b) THEN NaN
    ELSE IF EsInf(a) \/ EsInf(b)
         THEN (IF a[1] = 0 \/ b[1] = 0 THEN NaN ELSE <<Sgn(a[1]) * Sgn(b[1]), 0>>)
    ELSE IF (Abs(a[1]) \div a[2]) * (Abs(b[1]) \div b[2]) > MaxDoble
         THEN <<Sgn(a[1]) * Sgn(b[1]), 0>>
    ELSE Satura(Mul(a, b))

FMul(a, b) == CHOOSE r \in {ProductoIEEE(u[1], u[2]) : u \in {<<a, b>>}} : TRUE

CocienteIEEE(a, b) ==
    IF EsNaN(a) \/ EsNaN(b) THEN NaN
    ELSE IF EsInf(a)
         THEN (IF EsInf(b) THEN NaN
               ELSE <<a[1] * (IF b[1] < 0 THEN -1 ELSE 1), 0>>)
    ELSE IF EsInf(b) THEN Ent(0)
    ELSE Satura(Div(a, b))

FDiv(a, b) == CHOOSE r \in {CocienteIEEE(u[1], u[2]) : u \in {<<a, b>>}} : TRUE

\* std::pow(x, 3)
Pow3(a) == FMul(FMul(a, a), a)

\* std::cos, at the one argument whose cosine is rational
Cos(a) == CASE a = Ent(0) -> Ent(1)

\* std::isfinite
isfinite(a) == a[2] # 0

\* ------------------------------------------------- class OsciladorDuffing

\* element idx (from 0) of a std::vector
En(v, idx) == v[idx + 1]

\* an object whose constructor has not run
OsciladorNuevo ==
    [alfa |-> Ent(0), beta |-> Ent(0), gamma |-> Ent(0), omega |-> Ent(0),
     k |-> Ent(0), m |-> <<>>, delta |-> <<>>,
     t |-> <<>>, x1 |-> <<>>, x2 |-> <<>>, y1 |-> <<>>, y2 |-> <<>>]

OsciladorDuffing(alfa_, beta_, gamma_, omega_, k_, m_, delta_) ==
    [OsciladorNuevo EXCEPT !.alfa = alfa_, !.beta = beta_, !.gamma = gamma_,
                           !.omega = omega_, !.k = k_, !.m = m_, !.delta = delta_]

\* for (double ti = t0; ti <= tf; ti += dt) t.push_back(ti);
RECURSIVE Tiempos(_, _, _)
Tiempos(ti, tf, dt_) ==
    IF Leq(ti, tf) THEN <<ti>> \o Tiempos(FAdd(ti, dt_), tf, dt_) ELSE <<>>

inicializar(o, t0, tf, dt_, x1_0, x2_0, y1_0, y2_0) ==
    [o EXCEPT !.t = o.t \o Tiempos(t0, tf, dt_),
              !.x1 = <<x1_0>>, !.x2 = <<x2_0>>, !.y1 = <<y1_0>>, !.y2 = <<y2_0>>]

f1(o, t_, x1_, x2_, y1_, y2_) ==
    FDiv(FNeg(FAdd(FAdd(FAdd(FAdd(FMul(y1_, En(o.delta, 0)),
                                  FMul(FMul(En(o.m, 0), o.alfa), x1_)),
                             FMul(o.beta, Pow3(x1_))),
                        FMul(o.k, FSub(x1_, x2_))),
                   FMul(o.gamma, Cos(FMul(o.omega, t_))))),
         En(o.m, 0))

f2(o, t_, x1_, x2_, y1_, y2_) ==
    FDiv(FNeg(FAdd(FAdd(FAdd(FMul(y2_, En(o.delta, 1)),
                             FMul(FMul(En(o.m, 1), o.alfa), x2_)),
                        FMul(o.beta, Pow3(x2_))),
                   FMul(o.k, FSub(x2_, x1_)))),
         En(o.m, 1))

\* --------------------------------------------------- class IntegradorRK4

Medio(a) == FDiv(a, Ent(2))

\* (s[0] + 2 * s[1] + 2 * s[2] + s[3]) / 6
SumaPonderada(s) ==
    FDiv(FAdd(FAdd(FAdd(En(s, 0), FMul(Ent(2), En(s, 1))), FMul(Ent(2), En(s, 2))),
              En(s, 3)),
         Ent(6))

\* the k's of the loop body: each stage takes the k of the stage before it
EtapasK(h, y) ==
    LET k0 == FMul(h, y)
        k1 == FMul(h, FAdd(y, Medio(k0)))
        k2 == FMul(h, FAdd(y, Medio(k1)))
        k3 == FMul(h, FAdd(y, k2))
    IN  <<k0, k1, k2, k3>>

\* a check that looks at the positions only
NoFinito_soloX(r) == ~isfinite(r.x1) \/ ~isfinite(r.x2)

\* !isfinite(x1.back()) || !isfinite(y1.back()) || !isfinite(x2.back()) || ...
NoFinito(r) ==
    ~isfinite(r.x1) \/ ~isfinite(r.y1) \/ ~isfinite(r.x2) \/ ~isfinite(r.y2)

\* <<l1[s], l2[s]>> of one stage: h * f1(...) and h * f2(...) at the same
\* arguments
EtapaL(o, h, t_, x1_, x2_, y1_, y2_) ==
    << FMul(h, f1(o, t_, x1_, x2_, y1_, y2_)), FMul(h, f2(o, t_, x1_, x2_, y1_, y2_)) >>

\* the body of the loop of integrar for index idx: the stages and the four
\* values pushed back.  s0..s3 are the pairs <<l1[s], l2[s]>>, each computed
\* once from the pair before it.
PasoIntegrar(o, idx) ==
    LET ti  == En(o.t, idx)
        h   == FSub(En(o.t, idx + 1), ti)
        x1i == En(o.x1, idx)
        x2i == En(o.x2, idx)
        y1i == En(o.y1, idx)
        y2i == En(o.y2, idx)
    IN  CHOOSE r \in UNION { UNION { UNION { UNION {
            { [k1 |-> kk[1], k2 |-> kk[2],
               l1 |-> <<s0[1], s1[1], s2[1], s3[1]>>,
               l2 |-> <<s0[2], s1[2], s2[2], s3[2]>>,
               x1 |-> FAdd(x1i, SumaPonderada(kk[1])),
               x2 |-> FAdd(x2i, SumaPonderada(kk[2])),
               y1 |-> FAdd(y1i, SumaPonderada(<<s0[1], s1[1], s2[1], s3[1]>>)),
               y2 |-> FAdd(y2i, SumaPonderada(<<s0[2], s1[2], s2[2], s3[2]>>))]
              : s3 \in { EtapaL(o, h, FAdd(ti, h),
                                FAdd(x1i, En(kk[1], 2)), FAdd(x2i, En(kk[2], 2)),
                                FAdd(y1i, s2[1]), FAdd(y2i, s2[2])) } }
            : s2 \in { EtapaL(o, h, FAdd(ti, Medio(h)),
                              FAdd(x1i, Medio(En(kk[1], 1))), FAdd(x2i, Medio(En(kk[2], 1))),
                              FAdd(y1i, Medio(s1[1])), FAdd(y2i, Medio(s1[2]))) } }
            : s1 \in { EtapaL(o, h, FAdd(ti, Medio(h)),
                              FAdd(x1i, Medio(En(kk[1], 0))), FAdd(x2i, Medio(En(kk[2], 0))),
                              FAdd(y1i, Medio(s0[1])), FAdd(y2i, Medio(s0[2]))) } }
            : s0 \in { EtapaL(o, h, ti, x1i, x2i, y1i, y2i) } }
            : kk \in { <<EtapasK(h, y1i), EtapasK(h, y2i)>> } } : TRUE

\* ------------------------------------------------------------------ state

VARIABLES
    pc,          \* where main is: "leer", "radio", "malla", "paso", "colision",
                 \* "mueva", "presion", "fin"; "cajas" / "esfera" under a driver;
                 \* "duffing", "inicializar", "integrar", "retorno" in the
                 \* oscillator program
    params,      \* what main read: largo, n, vmax, R and malla
    caja,        \* the Cajas object
    esferas,     \* the Esfera objects
    step,        \* main's step
    i,           \* main's i (1-based); the i of integrar (from 0)
    j,           \* main's j (1-based)
    energia,     \* main's energia_total
    presion_dat, \* the lines written to results/presion.dat
    llamadas,    \* history: the colision calls <<i, j>> made in the current step
    traza,       \* history: the calls <<name, sphere>> made in the current step
    osc,         \* the OsciladorDuffing object of the oscillator program
    muestras,    \* history: the arguments of calcularPresionN since the last
                 \* actualizarPresion
    hcaja,       \* history of caja: reinicio, whether actualizarPresion has run;
                 \* ultima, the later of actualizarPresion and calcularPresion;
                 \* pfinal, the value the last calcularPresion computed
    ult,         \* history: the last operation, with the state it started from
    nops         \* number of calls a driver has made

vars == <<pc, params, caja, esferas, step, i, j, energia, presion_dat,
          llamadas, traza, osc, muestras, hcaja, ult, nops>>

\* no calcularPresion yet
Nada == <<>>

Op(name, k, k2, fx, fy) ==
    [op |-> name, k |-> k, k2 |-> k2, fx |-> fx, fy |-> fy,
     preE |-> esferas, preC |-> caja, preM |-> muestras]

\* a Cajas object before inicio and actualizarPresion: the members hold no
\* value yet and nothing reads them before they are set
CajaNueva ==
    [xmin |-> Ent(0), xmax |-> Ent(0), ymin |-> Ent(0), ymax |-> Ent(0),
     p |-> Ent(0), n |-> 0, pn |-> Ent(0)]

\* ------------------------------------------------------------------- main

dt == Rat(1, 100)

m0 == Ent(1)

\* static_cast<int>(ceil(sqrt(n)))
Malla(n) == CHOOSE k \in 0..n : k * k >= n /\ \A l \in 0..(k - 1) : l * l < n

\* the side lengths, maximal speeds and radii typed in
LargoSet == {Ent(2)}

VmaxSet == {Ent(10), Ent(40)}

RadioSet == {Ent(0), Rat(2, 5), Rat(9, 20), Rat(1, 2)}

\* the velocities (v*cos(ang), v*sin(ang)) drawn
Velocidades == {<<0, -6>>, <<0, -40>>, <<30, 0>>, <<-24, 32>>, <<0, 0>>}

VelSet(vmax) ==
    {v \in Velocidades : Leq(Add(Sq(Ent(v[1])), Sq(Ent(v[2]))), Sq(vmax))}

\* R <= 0 || R >= largo / (2.0 * malla)
RadioFueraDeRango(R, largo, malla) ==
    Leq(R, Ent(0)) \/ Leq(Div(largo, Ent(2 * malla)), R)

\* a cell coordinate taken at the cell's edge: -half + i * (largo / malla)
Celda_sinMedio(c, largo, malla) ==
    Add(Neg(Div(largo, Ent(2))), Mul(Ent(c), Div(largo, Ent(malla))))

\* -half + (i + 0.5) * (largo / malla), for cell index c = 0, 1, ...
Celda(c, largo, malla) ==
    Add(Neg(Div(largo, Ent(2))), Mul(Rat(2 * c + 1, 2), Div(largo, Ent(malla))))

\* the sphere that the loops of the initialization give index idx (0-based)
EsferaDeMalla(idx, v, P) ==
    EsferaInicio(m0,
                 Celda(idx \div P.malla, P.largo, P.malla),
                 Celda(idx % P.malla, P.largo, P.malla),
                 Ent(v[1]), Ent(v[2]), P.R)

RECURSIVE EnergiaTotal(_, _)
EnergiaTotal(E, k) ==
    IF k = 0 THEN Ent(0)
    ELSE Add(EnergiaTotal(E, k - 1), Mul(Mul(Rat(1, 2), m0), Getv2(E[k])))

\* an inner loop that starts at the sphere itself
PrimerJ_desdeI(a) == a

\* the first j of the inner loop: j = i + 1
PrimerJ(a) == a + 1

Acotado(E) ==
    \A k \in 1..Len(E) :
        /\ E[k].x[2] \in 1..MaxDen /\ E[k].y[2] \in 1..MaxDen
        /\ E[k].vx[2] \in 1..MaxDen /\ E[k].vy[2] \in 1..MaxDen

Init ==
    /\ pc = "leer"
    /\ params = [largo |-> Ent(0), n |-> 0, vmax |-> Ent(0), R |-> Ent(0), malla |-> 0]
    /\ caja = CajaNueva
    /\ esferas = <<>>
    /\ step = 0
    /\ i = 0
    /\ j = 0
    /\ energia = Ent(0)
    /\ presion_dat = <<>>
    /\ llamadas = <<>>
    /\ traza = <<>>
    /\ osc = OsciladorNuevo
    /\ muestras = <<>>
    /\ hcaja = [reinicio |-> FALSE, ultima |-> "ninguna", pfinal |-> Nada]
    /\ ult = [op |-> "ninguna", k |-> 0, k2 |-> 0, fx |-> FALSE, fy |-> FALSE,
              preE |-> <<>>, preC |-> CajaNueva, preM |-> <<>>]
    /\ nops = 0

\* main, lines 43-62: largo, the box, n, malla, vmax
LeerParametros ==
    /\ pc = "leer"
    /\ \E largo \in LargoSet, n \in 1..MaxN, vmax \in VmaxSet :
        /\ params' = [largo |-> largo, n |-> n, vmax |-> vmax, R |-> Ent(0),
                      malla |-> Malla(n)]
        /\ caja' = CajasInicio(caja, Neg(Div(largo, Ent(2))), Div(largo, Ent(2)),
                               Neg(Div(largo, Ent(2))), Div(largo, Ent(2)))
    /\ pc' = "radio"
    /\ ult' = Op("Cajas::inicio", 0, 0, FALSE, FALSE)
    /\ UNCHANGED <<osc, traza, esferas, step, i, j, energia, presion_dat, llamadas, muestras,
                   hcaja, nops>>

\* main, lines 66-72: one round of the do-while that reads R
LeerRadio ==
    /\ pc = "radio"
    /\ \E r \in RadioSet :
        /\ params' = [params EXCEPT !.R = r]
        /\ pc' = IF RadioFueraDeRango(r, params.largo, params.malla)
                 THEN "radio" ELSE "malla"
    /\ UNCHANGED <<osc, traza, caja, esferas, step, i, j, energia, presion_dat, llamadas,
                   muestras, hcaja, ult, nops>>

\* main, lines 75-117: the spheres on the grid, then caja.actualizarPresion()
Inicializacion ==
    /\ pc = "malla"
    /\ \E v \in [1..params.n -> VelSet(params.vmax)] :
        esferas' = [k \in 1..params.n |-> EsferaDeMalla(k - 1, v[k], params)]
    /\ caja' = actualizarPresion(caja)
    /\ muestras' = <<>>
    /\ hcaja' = [hcaja EXCEPT !.reinicio = TRUE, !.ultima = "actualizarPresion"]
    /\ ult' = Op("actualizarPresion", 0, 0, FALSE, FALSE)
    /\ pc' = "paso"
    /\ UNCHANGED <<osc, traza, params, step, i, j, energia, presion_dat, llamadas, nops>>

\* main, lines 127-153: the head of a step
InicioPaso ==
    /\ pc = "paso"
    /\ step < MaxPasos
    /\ Acotado(esferas)
    /\ energia' = EnergiaTotal(esferas, params.n)
    /\ caja' = actualizarPresion(caja)
    /\ muestras' = <<>>
    /\ llamadas' = <<>>
    /\ traza' = << <<"actualizarPresion", 0>> >>
    /\ i' = 1
    /\ j' = PrimerJ(1)
    /\ hcaja' = [hcaja EXCEPT !.reinicio = TRUE, !.ultima = "actualizarPresion"]
    /\ ult' = Op("actualizarPresion", 0, 0, FALSE, FALSE)
    /\ pc' = "colision"
    /\ UNCHANGED <<osc, params, esferas, step, presion_dat, nops>>

\* main, line 158: esferas[i].colision(esferas[j])
Colision ==
    /\ pc = "colision"
    /\ j <= params.n
    /\ Acotado(esferas)
    /\ LET r == colision(esferas[i], esferas[j])
       IN  esferas' = [[esferas EXCEPT ![i] = r[1]] EXCEPT ![j] = r[2]]
    /\ llamadas' = Append(llamadas, <<i, j>>)
    /\ traza' = Append(traza, <<"colision", i>>)
    /\ j' = j + 1
    /\ ult' = Op("colision", i, j, FALSE, FALSE)
    /\ UNCHANGED <<osc, pc, params, caja, step, i, energia, presion_dat, muestras,
                   hcaja, nops>>

\* main, line 160: esferas[i].rebotePared(caja)
RebotePared ==
    /\ pc = "colision"
    /\ j > params.n
    /\ Acotado(esferas)
    /\ LET r == rebotePared(esferas[i], caja)
       IN  /\ esferas' = [esferas EXCEPT ![i] = r.e]
           /\ caja' = r.caja
           /\ muestras' = muestras \o r.muestras
           /\ ult' = Op("rebotePared", i, 0, r.fx, r.fy)
    /\ traza' = Append(traza, <<"rebotePared", i>>)
    /\ pc' = "mueva"
    /\ UNCHANGED <<osc, params, step, i, j, energia, presion_dat, llamadas, hcaja, nops>>

\* main, line 161 and the increment of i: esferas[i].muevase(dt)
Muevase ==
    /\ pc = "mueva"
    /\ Acotado(esferas)
    /\ esferas' = [esferas EXCEPT ![i] = muevase(esferas[i], dt)]
    /\ ult' = Op("muevase", i, 0, FALSE, FALSE)
    /\ traza' = Append(traza, <<"muevase", i>>)
    /\ IF i + 1 <= params.n
       THEN /\ i' = i + 1
            /\ j' = PrimerJ(i + 1)
            /\ pc' = "colision"
       ELSE /\ pc' = "presion"
            /\ UNCHANGED <<i, j>>
    /\ UNCHANGED <<osc, params, caja, step, energia, presion_dat, llamadas, muestras,
                   hcaja, nops>>

\* main, lines 165-168: caja.calcularPresion(), the line of presion.dat, step++
CalcularPresion ==
    /\ pc = "presion"
    /\ caja' = calcularPresion(caja)
    /\ hcaja' = [hcaja EXCEPT !.ultima = "calcularPresion", !.pfinal = Getp(caja')]
    /\ presion_dat' = Append(presion_dat, <<Mul(Ent(step), dt), Getp(caja')>>)
    /\ step' = step + 1
    /\ traza' = Append(Append(traza, <<"calcularPresion", 0>>), <<"presion.dat", 0>>)
    /\ ult' = Op("calcularPresion", 0, 0, FALSE, FALSE)
    /\ pc' = "paso"
    /\ UNCHANGED <<osc, params, esferas, i, j, energia, llamadas, muestras, nops>>

\* main, lines 171-247: the loop is over; the histogram loop only reads
Fin ==
    /\ pc = "paso"
    /\ step >= MaxPasos
    /\ pc' = "fin"
    /\ UNCHANGED <<osc, traza, params, caja, esferas, step, i, j, energia, presion_dat,
                   llamadas, muestras, hcaja, ult, nops>>

Next ==
    \/ LeerParametros
    \/ LeerRadio
    \/ Inicializacion
    \/ InicioPaso
    \/ Colision
    \/ RebotePared
    \/ Muevase
    \/ CalcularPresion
    \/ Fin

Spec == Init /\ [][Next]_vars

\* the collision loops of a step alone (main, lines 156-159 without lines
\* 160-161): colision over every pair a < b, in index order
RECURSIVE PasadaDesde(_, _, _)
PasadaDesde(E, a, b) ==
    IF a > Len(E) THEN E
    ELSE IF b > Len(E) THEN PasadaDesde(E, a + 1, PrimerJ(a + 1))
    ELSE LET r == colision(E[a], E[b])
         IN  PasadaDesde([[E EXCEPT ![a] = r[1]] EXCEPT ![b] = r[2]], a, b + 1)

PasadaColisiones(E) == PasadaDesde(E, 1, PrimerJ(1))

\* ------------------------------------------------- a driver of class Cajas
\* Any caller of the public operations of Cajas, in any order.  A Cajas
\* object has no constructor: p, n and pn start with whatever the memory
\* holds.

Indeterminado == {Ent(0), Ent(7)}

Mv2Set == {Ent(1), Ent(3), Rat(5, 2)}

InitCajas ==
    /\ pc = "cajas"
    /\ params = [largo |-> Ent(0), n |-> 0, vmax |-> Ent(0), R |-> Ent(0), malla |-> 0]
    /\ \E p0 \in Indeterminado, pn0 \in Indeterminado, n0 \in {0, 2} :
        caja = [CajaNueva EXCEPT !.p = p0, !.pn = pn0, !.n = n0]
    /\ esferas = <<>>
    /\ step = 0
    /\ i = 0
    /\ j = 0
    /\ energia = Ent(0)
    /\ presion_dat = <<>>
    /\ llamadas = <<>>
    /\ traza = <<>>
    /\ osc = OsciladorNuevo
    /\ muestras = <<>>
    /\ hcaja = [reinicio |-> FALSE, ultima |-> "ninguna", pfinal |-> Nada]
    /\ ult = [op |-> "ninguna", k |-> 0, k2 |-> 0, fx |-> FALSE, fy |-> FALSE,
              preE |-> <<>>, preC |-> CajaNueva, preM |-> <<>>]
    /\ nops = 0

\* caja.actualizarPresion()
DActualizarPresion ==
    /\ pc = "cajas"
    /\ nops < MaxOps
    /\ caja' = actualizarPresion(caja)
    /\ muestras' = <<>>
    /\ hcaja' = [hcaja EXCEPT !.reinicio = TRUE, !.ultima = "actualizarPresion"]
    /\ ult' = Op("actualizarPresion", 0, 0, FALSE, FALSE)
    /\ nops' = nops + 1
    /\ UNCHANGED <<osc, traza, pc, params, esferas, step, i, j, energia, presion_dat, llamadas>>

\* caja.calcularPresionN(mv2)
DCalcularPresionN ==
    /\ pc = "cajas"
    /\ nops < MaxOps
    /\ \E mv2 \in Mv2Set :
        /\ caja' = calcularPresionN(caja, mv2)
        /\ muestras' = Append(muestras, mv2)
    /\ ult' = Op("calcularPresionN", 0, 0, FALSE, FALSE)
    /\ nops' = nops + 1
    /\ UNCHANGED <<osc, traza, pc, params, esferas, step, i, j, energia, presion_dat, llamadas,
                   hcaja>>

\* caja.calcularPresion()
DCalcularPresion ==
    /\ pc = "cajas"
    /\ nops < MaxOps
    /\ caja' = calcularPresion(caja)
    /\ hcaja' = [hcaja EXCEPT !.ultima = "calcularPresion", !.pfinal = Getp(caja')]
    /\ ult' = Op("calcularPresion", 0, 0, FALSE, FALSE)
    /\ nops' = nops + 1
    /\ UNCHANGED <<osc, traza, pc, params, esferas, step, i, j, energia, presion_dat, llamadas,
                   muestras>>

NextCajas ==
    \/ DActualizarPresion
    \/ DCalcularPresionN
    \/ DCalcularPresion

SpecCajas == InitCajas /\ [][NextCajas]_vars

\* ------------------------------------------------ a driver of class Esfera
\* Two spheres and a box, set up with inicio and actualizarPresion, then any
\* calls of rebotePared, colision and muevase.

\* number of calls the driver of Esfera makes
MaxOpsEsfera == 2

\* the boxes: <<xmin, xmax, ymin, ymax>>
CajaSet == {<<Ent(-5), Ent(5), Ent(-5), Ent(5)>>, <<Ent(-5), Ent(5), Ent(-2), Ent(2)>>}

\* the first sphere: in the open, at a wall in x, at a wall in y of either
\* box, in a corner
Pos1Set == {<<Ent(0), Ent(0)>>, <<Rat(99, 20), Ent(0)>>, <<Ent(0), Rat(39, 20)>>,
            <<Rat(-99, 20), Rat(99, 20)>>}

Vel1Set == {<<Ent(1), Ent(0)>>, <<Ent(0), Ent(1)>>, <<Ent(3), Ent(-2)>>}

\* the second sphere relative to the first: touching (distance 1/5 = R + R),
\* overlapping, same centre, apart
DesplSet == {<<Rat(3, 25), Rat(4, 25)>>, <<Rat(1, 10), Rat(-1, 20)>>,
             <<Ent(0), Ent(0)>>, <<Ent(1), Ent(0)>>}

Vel2Set == {<<Ent(0), Ent(0)>>, <<Ent(-1), Ent(2)>>}

MasaSet == {Ent(1), Ent(2)}

RadioEsfera == Rat(1, 10)

InitEsfera ==
    /\ pc = "esfera"
    /\ params = [largo |-> Ent(0), n |-> 2, vmax |-> Ent(0), R |-> RadioEsfera, malla |-> 0]
    /\ \E b \in CajaSet :
        caja = actualizarPresion(CajasInicio(CajaNueva, b[1], b[2], b[3], b[4]))
    /\ \E p1 \in Pos1Set, v1 \in Vel1Set, d \in DesplSet, v2 \in Vel2Set, m2 \in MasaSet :
        esferas = << EsferaInicio(Ent(1), p1[1], p1[2], v1[1], v1[2], RadioEsfera),
                     EsferaInicio(m2, Add(p1[1], d[1]), Add(p1[2], d[2]),
                                  v2[1], v2[2], RadioEsfera) >>
    /\ step = 0
    /\ i = 0
    /\ j = 0
    /\ energia = Ent(0)
    /\ presion_dat = <<>>
    /\ llamadas = <<>>
    /\ traza = <<>>
    /\ osc = OsciladorNuevo
    /\ muestras = <<>>
    /\ hcaja = [reinicio |-> TRUE, ultima |-> "actualizarPresion", pfinal |-> Nada]
    /\ ult = [op |-> "ninguna", k |-> 0, k2 |-> 0, fx |-> FALSE, fy |-> FALSE,
              preE |-> <<>>, preC |-> CajaNueva, preM |-> <<>>]
    /\ nops = 0

\* esferas[k].rebotePared(caja)
ERebotePared ==
    /\ pc = "esfera"
    /\ nops < MaxOpsEsfera
    /\ \E k \in 1..Len(esferas) :
        LET r == rebotePared(esferas[k], caja)
        IN  /\ esferas' = [esferas EXCEPT ![k] = r.e]
            /\ caja' = r.caja
            /\ muestras' = muestras \o r.muestras
            /\ ult' = Op("rebotePared", k, 0, r.fx, r.fy)
    /\ nops' = nops + 1
    /\ UNCHANGED <<osc, traza, pc, params, step, i, j, energia, presion_dat, llamadas, hcaja>>

\* esferas[a].colision(esferas[b])
EColision ==
    /\ pc = "esfera"
    /\ nops < MaxOpsEsfera
    /\ \E a \in 1..Len(esferas), b \in 1..Len(esferas) :
        /\ a # b
        /\ LET r == colision(esferas[a], esferas[b])
           IN  esferas' = [[esferas EXCEPT ![a] = r[1]] EXCEPT ![b] = r[2]]
        /\ ult' = Op("colision", a, b, FALSE, FALSE)
    /\ nops' = nops + 1
    /\ UNCHANGED <<osc, traza, pc, params, caja, step, i, j, energia, presion_dat, llamadas,
                   muestras, hcaja>>

\* esferas[k].muevase(dt)
EMuevase ==
    /\ pc = "esfera"
    /\ nops < MaxOpsEsfera
    /\ \E k \in 1..Len(esferas) :
        /\ esferas' = [esferas EXCEPT ![k] = muevase(esferas[k], dt)]
        /\ ult' = Op("muevase", k, 0, FALSE, FALSE)
    /\ nops' = nops + 1
    /\ UNCHANGED <<osc, traza, pc, params, caja, step, i, j, energia, presion_dat, llamadas,
                   muestras, hcaja>>

NextEsfera ==
    \/ ERebotePared
    \/ EColision
    \/ EMuevase

SpecEsfera == InitEsfera /\ [][NextEsfera]_vars

\* --------------------------------------- the oscillator program (main)

\* the arguments of the constructor
AlfaSet == {Ent(-1)}

BetaSet == {Ent(0), Ent(3)}

GammaSet == {Ent(0), Rat(3, 2)}

OmegaSet == {Ent(0)}

AcopleSet == {Ent(0), Ent(1)}

MasasSet == {<<Ent(1), Ent(1)>>, <<Ent(0), Ent(1)>>}

FriccionSet == {<<Ent(0), Ent(0)>>, <<Rat(1, 2), Rat(1, 2)>>}

\* the arguments of inicializar
T0Set == {Ent(0)}

TfSet == {Ent(-1), Ent(0), Ent(1), Ent(2), Ent(3)}

DtSet == {Ent(1), Rat(1, 2)}

X1Set == {Ent(-1), Ent(2)}

X2Set == {Ent(1)}

Y1Set == {Ent(0), Ent(1)}

Y2Set == {Ent(0)}

\* a state with a larger denominator is not integrated further
MaxDenRK == 24

\* the state of index idx is among the values the model follows
Seguible(o, idx) ==
    \A v \in {En(o.x1, idx), En(o.x2, idx), En(o.y1, idx), En(o.y2, idx)} :
        v[2] \in 0..MaxDenRK

InitDuffing ==
    /\ pc = "duffing"
    /\ params = [largo |-> Ent(0), n |-> 0, vmax |-> Ent(0), R |-> Ent(0), malla |-> 0]
    /\ caja = CajaNueva
    /\ esferas = <<>>
    /\ step = 0
    /\ i = 0
    /\ j = 0
    /\ energia = Ent(0)
    /\ presion_dat = <<>>
    /\ llamadas = <<>>
    /\ traza = <<>>
    /\ osc = OsciladorNuevo
    /\ muestras = <<>>
    /\ hcaja = [reinicio |-> FALSE, ultima |-> "", pfinal |-> Nada]
    /\ ult = [op |-> ""]
    /\ nops = 0

\* main, lines 43-52: the parameters and the constructor
Construir ==
    /\ pc = "duffing"
    /\ \E a \in AlfaSet, b \in BetaSet, g \in GammaSet, w \in OmegaSet,
          c \in AcopleSet, ms \in MasasSet, ds \in FriccionSet :
        osc' = OsciladorDuffing(a, b, g, w, c, ms, ds)
    /\ ult' = [op |-> "OsciladorDuffing"]
    /\ pc' = "inicializar"
    /\ UNCHANGED <<params, caja, esferas, step, i, j, energia, presion_dat, llamadas,
                   traza, muestras, hcaja, nops>>

\* main, line 55: duffing.inicializar(t0, tf, dt, x1_0, x2_0, v1_0, v2_0)
Inicializar ==
    /\ pc = "inicializar"
    /\ \E t0 \in T0Set, tf \in TfSet, h \in DtSet,
          a1 \in X1Set, a2 \in X2Set, b1 \in Y1Set, b2 \in Y2Set :
        osc' = inicializar(osc, t0, tf, h, a1, a2, b1, b2)
    /\ ult' = [op |-> "inicializar"]
    /\ i' = 0
    /\ pc' = "integrar"
    /\ UNCHANGED <<params, caja, esferas, step, j, energia, presion_dat, llamadas,
                   traza, muestras, hcaja, nops>>

\* one iteration of the loop of integrar: the stages, the four push_back and
\* the check that ends the loop
IterarRK4 ==
    /\ pc = "integrar"
    /\ i + 1 < Len(osc.t)
    /\ Seguible(osc, i)
    /\ \E r \in {PasoIntegrar(osc, i)} :
           /\ osc' = [osc EXCEPT !.x1 = Append(osc.x1, r.x1),
                                 !.x2 = Append(osc.x2, r.x2),
                                 !.y1 = Append(osc.y1, r.y1),
                                 !.y2 = Append(osc.y2, r.y2)]
           /\ ult' = [op |-> "integrar", k |-> i, pre |-> osc, r |-> r,
                       corte |-> NoFinito(r)]
           /\ IF NoFinito(r)
              THEN pc' = "retorno" /\ i' = i
              ELSE pc' = "integrar" /\ i' = i + 1
    /\ UNCHANGED <<params, caja, esferas, step, j, energia, presion_dat, llamadas,
                   traza, muestras, hcaja, nops>>

\* the loop condition i + 1 < t.size() fails: integrar returns
RetornarRK4 ==
    /\ pc = "integrar"
    /\ ~(i + 1 < Len(osc.t))
    /\ ult' = [op |-> "retorno", k |-> i, pre |-> osc, corte |-> FALSE]
    /\ pc' = "retorno"
    /\ UNCHANGED <<params, caja, esferas, step, i, j, energia, presion_dat, llamadas,
                   traza, osc, muestras, hcaja, nops>>

NextDuffing ==
    \/ Construir
    \/ Inicializar
    \/ IterarRK4
    \/ RetornarRK4

SpecDuffing == InitDuffing /\ [][NextDuffing]_vars

\* ---------------------------------------------------------------- claims

Velocidad(e) == <<e.vx, e.vy>>

VelocidadesDe(E) == [k \in 1..Len(E) |-> Velocidad(E[k])]

\* C1: running the collision pass twice in a row on the same configuration
\* leaves the velocities a single pass produces
C1_PasadaIdempotente ==
    (pc = "paso" /\ Acotado(esferas) /\ Acotado(PasadaColisiones(esferas)))
        => VelocidadesDe(PasadaColisiones(PasadaColisiones(esferas)))
           = VelocidadesDe(PasadaColisiones(esferas))

\* how far coordinate u lies outside [lo, hi]
Exceso(u, lo, hi) ==
    IF Leq(hi, u) THEN Sub(u, hi) ELSE IF Leq(u, lo) THEN Sub(lo, u) ELSE Ent(0)

\* the excess is at most speed * dt (compared as squares)
DentroConTolerancia(e, c) ==
    /\ Leq(Sq(Exceso(e.x, c.xmin, c.xmax)), Mul(Getv2(e), Sq(dt)))
    /\ Leq(Sq(Exceso(e.y, c.ymin, c.ymax)), Mul(Getv2(e), Sq(dt)))

\* C2: after any number of steps every centre is inside the box on both axes,
\* up to an overshoot of at most that sphere's speed times dt
C2_Contenidas ==
    (pc = "paso" /\ step >= 1 /\ Acotado(esferas))
        => \A k \in 1..Len(esferas) : DentroConTolerancia(esferas[k], caja)

\* the test the documentation of the box gives for an axis
CercaDe(u, lo, hi, R) == Leq(Sub(u, lo), R) \/ Leq(Sub(hi, u), R)

\* C3: rebotePared negates vy exactly when (y - ymin) <= R or (ymax - y) <= R
\* and vx exactly when (x - xmin) <= R or (xmax - x) <= R, for the bounds
\* given to inicio
C3_CadaEjeSusLimites ==
    ult.op = "rebotePared" =>
        LET pre  == ult.preE[ult.k]
            post == esferas[ult.k]
        IN  /\ post.vx = (IF CercaDe(pre.x, caja.xmin, caja.xmax, pre.R)
                          THEN Neg(pre.vx) ELSE pre.vx)
            /\ post.vy = (IF CercaDe(pre.y, caja.ymin, caja.ymax, pre.R)
                          THEN Neg(pre.vy) ELSE pre.vy)

\* C4: calcularPresion with impact count n = 0 divides by nothing and leaves a
\* defined pressure
C4_PresionDefinida ==
    (ult.op = "calcularPresion" /\ ult.preC.n = 0) => EsFinito(Getp(caja))

\* C5 as claimed: Getp is always the value of the most recent calcularPresion,
\* and actualizarPresion zeroes pn and n and leaves p
C5_GetpUltimaFinalizada ==
    /\ hcaja.pfinal # Nada => Getp(caja) = hcaja.pfinal
    /\ ult.op = "actualizarPresion" =>
           caja.pn = Ent(0) /\ caja.n = 0 /\ caja.p = ult.preC.p

\* C5 amended: actualizarPresion zeroes pn, n and also p; Getp is the value of
\* the most recent calcularPresion while no actualizarPresion has run since,
\* and 0 once one has; calcularPresionN leaves p
C5_GetpHastaReinicio ==
    /\ hcaja.ultima = "calcularPresion" => Getp(caja) = hcaja.pfinal
    /\ hcaja.ultima = "actualizarPresion" => Getp(caja) = Ent(0)
    /\ ult.op = "actualizarPresion" =>
           caja.pn = Ent(0) /\ caja.n = 0 /\ caja.p = Ent(0)
    /\ ult.op = "calcularPresionN" => caja.p = ult.preC.p

C5_Testigo ==
    /\ ult.op = "actualizarPresion"
    /\ hcaja.pfinal # Nada
    /\ EsFinito(hcaja.pfinal)
    /\ hcaja.pfinal # Ent(0)
    /\ ult.preC.p = hcaja.pfinal
    /\ Getp(caja) = Ent(0)

Punto(u, v) == Add(Mul(u[1], v[1]), Mul(u[2], v[2]))

Cruz(u, v) == Sub(Mul(u[1], v[2]), Mul(u[2], v[1]))

\* the collision the last operation resolved: equal masses, 0 < dist <= R1 + R2
ChoqueIgualMasa ==
    /\ ult.op = "colision"
    /\ ult.preE[ult.k].m = ult.preE[ult.k2].m
    /\ EnContacto(ult.preE[ult.k], ult.preE[ult.k2])
    /\ Dist2(ult.preE[ult.k], ult.preE[ult.k2]) # Ent(0)

\* C6: for equal masses in contact colision exchanges the velocity components
\* along the line of centres, keeps the tangential ones, and so keeps the
\* pair's kinetic energy and momentum.  (The normal component is v.d / dist
\* and the tangential one v x d / dist, d the vector between the centres;
\* dist > 0 is the same on both sides.)
C6_IntercambioNormal ==
    ChoqueIgualMasa =>
        LET a1 == ult.preE[ult.k]
            a2 == ult.preE[ult.k2]
            b1 == esferas[ult.k]
            b2 == esferas[ult.k2]
            d  == <<Sub(a2.x, a1.x), Sub(a2.y, a1.y)>>
        IN  /\ Punto(Velocidad(b1), d) = Punto(Velocidad(a2), d)
            /\ Punto(Velocidad(b2), d) = Punto(Velocidad(a1), d)
            /\ Cruz(Velocidad(b1), d) = Cruz(Velocidad(a1), d)
            /\ Cruz(Velocidad(b2), d) = Cruz(Velocidad(a2), d)
            /\ Add(Mul(b1.m, Getv2(b1)), Mul(b2.m, Getv2(b2)))
               = Add(Mul(a1.m, Getv2(a1)), Mul(a2.m, Getv2(a2)))
            /\ Add(Mul(b1.m, b1.vx), Mul(b2.m, b2.vx))
               = Add(Mul(a1.m, a1.vx), Mul(a2.m, a2.vx))
            /\ Add(Mul(b1.m, b1.vy), Mul(b2.m, b2.vy))
               = Add(Mul(a1.m, a1.vy), Mul(a2.m, a2.vy))

C6_Testigo ==
    /\ ChoqueIgualMasa
    /\ ult.preE[ult.k].x # ult.preE[ult.k2].x
    /\ ult.preE[ult.k].y # ult.preE[ult.k2].y
    /\ Velocidad(esferas[ult.k]) # Velocidad(ult.preE[ult.k])
    /\ Velocidad(esferas[ult.k2]) # Velocidad(ult.preE[ult.k2])

RECURSIVE Suma(_)
Suma(q) == IF q = <<>> THEN Ent(0) ELSE Add(q[1], Suma(Tail(q)))

\* C7: after actualizarPresion and then calcularPresionN(mv2_1), ...,
\* calcularPresionN(mv2_k), k >= 1, calcularPresion sets the pressure to
\* (sum of mv2_i / 3) / k, and Getp returns it
C7_PromedioDeMuestras ==
    (ult.op = "calcularPresion" /\ hcaja.reinicio /\ Len(muestras) >= 1)
        => Getp(caja) = Div(Div(Suma(muestras), Ent(3)), Ent(Len(muestras)))

C7_Testigo ==
    /\ ult.op = "calcularPresion"
    /\ hcaja.reinicio
    /\ Len(muestras) >= 2
    /\ muestras[1] # muestras[2]
    /\ ult.preC.p # Getp(caja)

Cuenta(b) == IF b THEN 1 ELSE 0

\* C8: one rebotePared records one sample m*(vx^2+vy^2) for each axis whose
\* velocity component it negates (none, one, or two in a corner), so the
\* impact count is the number of flips since the reset; the sphere at
\* (4.95, 0) with R = 0.1 and v = (1, 0) in the box -5..5 gives one sample and
\* the pressure 1/3
C8_UnaMuestraPorEje ==
    /\ hcaja.reinicio => caja.n = Len(muestras)
    /\ ult.op = "rebotePared" =>
        LET pre  == ult.preE[ult.k]
            post == esferas[ult.k]
            mv2  == Mul(pre.m, Getv2(pre))
            nf   == Cuenta(ult.fx) + Cuenta(ult.fy)
        IN  /\ post.vx = (IF ult.fx THEN Neg(pre.vx) ELSE pre.vx)
            /\ post.vy = (IF ult.fy THEN Neg(pre.vy) ELSE pre.vy)
            /\ caja.n = ult.preC.n + nf
            /\ caja.pn = Add(ult.preC.pn, Mul(Ent(nf), Div(mv2, Ent(3))))
            /\ muestras = ult.preM \o [q \in 1..nf |-> mv2]
            /\ ( /\ pre = EsferaInicio(Ent(1), Rat(99, 20), Ent(0), Ent(1), Ent(0),
                                       Rat(1, 10))
                 /\ caja.xmin = Ent(-5) /\ caja.xmax = Ent(5)
                 /\ caja.ymin = Ent(-5) /\ caja.ymax = Ent(5)
                 /\ ult.preC.n = 0 )
               => (caja.n = 1 /\ Getp(calcularPresion(caja)) = Rat(1, 3))

C8_Testigo ==
    /\ ult.op = "rebotePared"
    /\ ult.fx
    /\ ult.fy
    /\ caja.n = ult.preC.n + 2
    /\ Len(muestras) = Len(ult.preM) + 2

\* C9: a reflection on a single axis changes only the sign of that axis's
\* velocity component: the other component, the position, the mass and the
\* radius stay, and so does vx^2 + vy^2
C9_SoloCambiaElSigno ==
    (ult.op = "rebotePared" /\ (ult.fx # ult.fy)) =>
        LET pre  == ult.preE[ult.k]
            post == esferas[ult.k]
        IN  /\ post.x = pre.x /\ post.y = pre.y
            /\ post.m = pre.m /\ post.R = pre.R
            /\ ult.fx => (post.vx = Neg(pre.vx) /\ post.vy = pre.vy)
            /\ ult.fy => (post.vy = Neg(pre.vy) /\ post.vx = pre.vx)
            /\ Getv2(post) = Getv2(pre)

C9_Testigo ==
    /\ ult.op = "rebotePared"
    /\ ult.fx
    /\ ~ult.fy
    /\ ult.preE[ult.k].vx[1] # 0
    /\ ult.preE[ult.k].vy[1] # 0
    /\ esferas[ult.k].vx # ult.preE[ult.k].vx

\* C10: in every step colision is called exactly once for each pair of
\* distinct spheres, as (a, b) with a < b, never as (b, a) and never for a
\* sphere with itself
C10_CadaParUnaVez ==
    /\ \A q \in 1..Len(llamadas) : llamadas[q][1] < llamadas[q][2]
    /\ \A q1 \in 1..Len(llamadas), q2 \in 1..Len(llamadas) :
           q1 # q2 => llamadas[q1] # llamadas[q2]
    /\ pc = "presion" =>
           \A a \in 1..params.n, b \in 1..params.n :
               a < b => \E q \in 1..Len(llamadas) : llamadas[q] = <<a, b>>

C10_Testigo ==
    /\ pc = "presion"
    /\ params.n = 3
    /\ Len(llamadas) = 3

\* the calls of one step for n spheres, in the order of the loop body: for
\* sphere a, its n - a collisions, then its reflection, then its advance
RECURSIVE LlamadasDeEsferas(_, _)
LlamadasDeEsferas(a, n) ==
    IF a > n THEN <<>>
    ELSE [q \in 1..(n - a) |-> <<"colision", a>>]
         \o << <<"rebotePared", a>>, <<"muevase", a>> >>
         \o LlamadasDeEsferas(a + 1, n)

OrdenDelPaso(n) ==
    << <<"actualizarPresion", 0>> >> \o LlamadasDeEsferas(1, n)
    \o << <<"calcularPresion", 0>>, <<"presion.dat", 0>> >>

\* (sum of the thirds of the samples) / (their number), 0/0 for no sample
PresionDeMuestras(q) ==
    Div(Suma([r \in 1..Len(q) |-> Div(q[r], Ent(3))]), Ent(Len(q)))

\* C11: the loop runs exactly pasos steps (MaxPasos here); a step resets the
\* accumulators, processes every sphere (collisions against j > i, wall
\* reflection, advance), finalizes the pressure and emits one point
\* (step*dt, pressure); so presion.dat has one point per step, in strictly
\* increasing time, and the pressure of a point comes only from the wall
\* impacts of its own step
C11_UnPuntoPorPaso ==
    /\ step <= MaxPasos
    /\ pc = "fin" => step = MaxPasos
    /\ pc \in {"paso", "fin"} => Len(presion_dat) = step
    /\ pc \in {"colision", "mueva", "presion"} =>
           /\ Len(presion_dat) = step
           /\ \E q \in 1..Len(OrdenDelPaso(params.n)) :
                  traza = SubSeq(OrdenDelPaso(params.n), 1, q)
    /\ \A q \in 1..Len(presion_dat) : presion_dat[q][1] = Mul(Ent(q - 1), dt)
    /\ \A q \in 1..(Len(presion_dat) - 1) :
           ~Leq(presion_dat[q + 1][1], presion_dat[q][1])
    /\ (pc \in {"paso", "fin"} /\ step >= 1) =>
           /\ traza = OrdenDelPaso(params.n)
           /\ presion_dat[step][2] = PresionDeMuestras(muestras)

C11_Testigo ==
    /\ pc = "fin"
    /\ params.n >= 2
    /\ Len(presion_dat) = MaxPasos
    /\ Len(muestras) >= 1
    /\ \E q1 \in 1..Len(presion_dat), q2 \in 1..Len(presion_dat) :
           /\ q1 < q2
           /\ EsFinito(presion_dat[q1][2]) /\ EsFinito(presion_dat[q2][2])
           /\ presion_dat[q1][2] # presion_dat[q2][2]

\* a < b
Menor(a, b) == ~Leq(b, a)

\* u is the centre of one of the malla intervals that divide [-largo/2, largo/2]
CentroDeCelda(u, largo, malla) ==
    \E a \in 0..(malla - 1) :
        u = Add(Neg(Div(largo, Ent(2))), Div(Mul(Ent(2 * a + 1), largo), Ent(2 * malla)))

\* the centre is more than R away from the four walls
LejosDeParedes(e, c) ==
    /\ Menor(e.R, Sub(e.x, c.xmin)) /\ Menor(e.R, Sub(c.xmax, e.x))
    /\ Menor(e.R, Sub(e.y, c.ymin)) /\ Menor(e.R, Sub(c.ymax, e.y))

\* C14: for n >= 1 and an accepted radius, 0 < R < largo / (2*ceil(sqrt(n))),
\* the initialization gives all n spheres a position, each the centre of a
\* cell of its own of the centred ceil(sqrt(n)) x ceil(sqrt(n)) grid, so no two
\* spheres are in contact (centre distance > 2R) and none is within R of a wall
C14_MallaSinContacto ==
    (pc = "paso" /\ step = 0) =>
        LET n == params.n
            P == params.malla
        IN  /\ n >= 1
            /\ P * P >= n /\ (P - 1) * (P - 1) < n
            /\ Menor(Ent(0), params.R)
            /\ Menor(params.R, Div(params.largo, Ent(2 * P)))
            /\ Len(esferas) = n
            /\ \A k \in 1..n :
                   /\ esferas[k].R = params.R
                   /\ CentroDeCelda(esferas[k].x, params.largo, P)
                   /\ CentroDeCelda(esferas[k].y, params.largo, P)
                   /\ LejosDeParedes(esferas[k], caja)
            /\ \A k1 \in 1..n, k2 \in 1..n :
                   k1 # k2 =>
                       /\ <<esferas[k1].x, esferas[k1].y>> # <<esferas[k2].x, esferas[k2].y>>
                       /\ Menor(Sq(Mul(Ent(2), params.R)), Dist2(esferas[k1], esferas[k2]))
                       /\ ~EnContacto(esferas[k1], esferas[k2])

C14_Testigo ==
    /\ pc = "paso"
    /\ step = 0
    /\ params.n = 3
    /\ params.malla = 2
    /\ params.R = Rat(9, 20)
    /\ Len(esferas) = 3

\* the velocities are among the values the model follows
VelAcotada(E) ==
    \A k \in 1..Len(E) : E[k].vx[2] \in 1..MaxDen /\ E[k].vy[2] \in 1..MaxDen

\* C15: with all masses equal (m0 = 1) the total kinetic energy, the sum of
\* 0.5*m*(vx^2+vy^2), is the same at the start of every step: no colision,
\* rebotePared or muevase call of the loop changes it
C15_EnergiaConstante ==
    ( /\ pc \in {"colision", "mueva", "presion"} \/ (pc \in {"paso", "fin"} /\ step >= 1)
      /\ VelAcotada(esferas) ) =>
        /\ \A k \in 1..params.n : esferas[k].m = m0
        /\ EnergiaTotal(esferas, params.n) = energia

C15_Testigo ==
    /\ pc \in {"colision", "mueva", "presion"}
    /\ step >= 2
    /\ ult.op = "colision"
    /\ Velocidad(esferas[ult.k]) # Velocidad(ult.preE[ult.k])
    /\ Getv2(esferas[ult.k]) # Getv2(ult.preE[ult.k])
    /\ VelAcotada(esferas)
    /\ energia # Ent(0)
    /\ EnergiaTotal(esferas, params.n) = energia

\* the position increments of the classical scheme for velocity y and velocity
\* increments l: h*y, h*(y + l[0]/2), h*(y + l[1]/2), h*(y + l[2])
EtapasClasicas(h, y, l) ==
    << FMul(h, y),
       FMul(h, FAdd(y, Medio(En(l, 0)))),
       FMul(h, FAdd(y, Medio(En(l, 1)))),
       FMul(h, FAdd(y, En(l, 2))) >>

\* one classical fourth-order Runge-Kutta step of x1' = y1, x2' = y2,
\* y1' = f1, y2' = f2 from the state of index idx: <<x1, x2, y1, y2>>
RK4Clasico(o, idx) ==
    LET ti == En(o.t, idx)
        h  == FSub(En(o.t, idx + 1), ti)
        x  == <<En(o.x1, idx), En(o.x2, idx)>>
        y  == <<En(o.y1, idx), En(o.y2, idx)>>
        k0 == <<FMul(h, y[1]), FMul(h, y[2])>>
        l0 == EtapaL(o, h, ti, x[1], x[2], y[1], y[2])
        k1 == <<FMul(h, FAdd(y[1], Medio(l0[1]))), FMul(h, FAdd(y[2], Medio(l0[2])))>>
        l1 == EtapaL(o, h, FAdd(ti, Medio(h)), FAdd(x[1], Medio(k0[1])),
                     FAdd(x[2], Medio(k0[2])), FAdd(y[1], Medio(l0[1])),
                     FAdd(y[2], Medio(l0[2])))
        k2 == <<FMul(h, FAdd(y[1], Medio(l1[1]))), FMul(h, FAdd(y[2], Medio(l1[2])))>>
        l2 == EtapaL(o, h, FAdd(ti, Medio(h)), FAdd(x[1], Medio(k1[1])),
                     FAdd(x[2], Medio(k1[2])), FAdd(y[1], Medio(l1[1])),
                     FAdd(y[2], Medio(l1[2])))
        k3 == <<FMul(h, FAdd(y[1], l2[1])), FMul(h, FAdd(y[2], l2[2]))>>
        l3 == EtapaL(o, h, FAdd(ti, h), FAdd(x[1], k2[1]), FAdd(x[2], k2[2]),
                     FAdd(y[1], l2[1]), FAdd(y[2], l2[2]))
    IN  << FAdd(x[1], SumaPonderada(<<k0[1], k1[1], k2[1], k3[1]>>)),
           FAdd(x[2], SumaPonderada(<<k0[2], k1[2], k2[2], k3[2]>>)),
           FAdd(y[1], SumaPonderada(<<l0[1], l1[1], l2[1], l3[1]>>)),
           FAdd(y[2], SumaPonderada(<<l0[2], l1[2], l2[2], l3[2]>>)) >>

\* the last entries of the four arrays
UltimoEstado(o) ==
    <<o.x1[Len(o.x1)], o.x2[Len(o.x2)], o.y1[Len(o.y1)], o.y2[Len(o.y2)]>>

\* C12: an iteration of integrar advances (x1, x2, y1, y2) by one classical
\* fourth-order Runge-Kutta step: the position increments are h times the
\* stage velocity (y + l/2 at stages 2 and 3, y + l at stage 4, l the velocity
\* increments) and the new state is the old one plus (s1 + 2*s2 + 2*s3 + s4)/6
C12_PasoRK4Clasico ==
    (ult.op = "integrar" /\ ~ult.corte) =>
        LET o == ult.pre
            h == FSub(En(o.t, ult.k + 1), En(o.t, ult.k))
            r == ult.r
        IN  /\ r.k1 = EtapasClasicas(h, En(o.y1, ult.k), r.l1)
            /\ r.k2 = EtapasClasicas(h, En(o.y2, ult.k), r.l2)
            /\ UltimoEstado(osc)
               = << FAdd(En(o.x1, ult.k), SumaPonderada(r.k1)),
                    FAdd(En(o.x2, ult.k), SumaPonderada(r.k2)),
                    FAdd(En(o.y1, ult.k), SumaPonderada(r.l1)),
                    FAdd(En(o.y2, ult.k), SumaPonderada(r.l2)) >>
            /\ UltimoEstado(osc) = RK4Clasico(o, ult.k)

\* every entry of the four arrays is finite
TodoFinito(o) ==
    \A v \in {o.x1, o.x2, o.y1, o.y2} : \A q \in 1..Len(v) : isfinite(v[q])

\* the four arrays have n entries each
Largos(o, n) == Len(o.x1) = n /\ Len(o.x2) = n /\ Len(o.y1) = n /\ Len(o.y2) = n

\* the entries before the last state are finite and the last state is not
CortadoEn(o, n) ==
    /\ Largos(o, n)
    /\ \A v \in {o.x1, o.x2, o.y1, o.y2} : \A q \in 1..(n - 1) : isfinite(v[q])
    /\ \E v \in {o.x1, o.x2, o.y1, o.y2} : ~isfinite(v[n])

\* what an iteration and the loop as a whole leave, apart from the final
\* length of a run without a non-finite state
UnaEntradaPorIntervalo ==
    /\ pc \in {"integrar", "retorno"} => Largos(osc, Len(osc.x1))
    /\ pc = "integrar" => (Largos(osc, i + 1) /\ TodoFinito(osc))
    /\ ult.op = "integrar" =>
           /\ Largos(osc, Len(ult.pre.x1) + 1)
           /\ \A q \in 1..Len(ult.pre.x1) :
                  /\ osc.x1[q] = ult.pre.x1[q] /\ osc.x2[q] = ult.pre.x2[q]
                  /\ osc.y1[q] = ult.pre.y1[q] /\ osc.y2[q] = ult.pre.y2[q]
    /\ (pc = "retorno" /\ ~TodoFinito(osc)) =>
           /\ ult.op = "integrar"
           /\ i + 1 < Len(osc.t)
           /\ CortadoEn(osc, i + 2)

\* C13 as claimed: integrar appends one entry to each of x1, x2, y1, y2 per
\* interval of the grid t and stops at the first appended state with a
\* non-finite component: with every state finite the four arrays end with
\* length t.size(), otherwise with the same length i + 2, i the first step
\* that gave a non-finite value, and nothing is appended after it
C13_LargoDeLaMalla ==
    /\ UnaEntradaPorIntervalo
    /\ (pc = "retorno" /\ TodoFinito(osc)) => Largos(osc, Len(osc.t))

\* C13 amended: as claimed for a grid with at least one point; for an empty
\* grid (tf < t0) the arrays keep the one entry inicializar gave them
C13_LargoDeLaMallaNoVacia ==
    /\ UnaEntradaPorIntervalo
    /\ (pc = "retorno" /\ TodoFinito(osc)) =>
           Largos(osc, IF Len(osc.t) = 0 THEN 1 ELSE Len(osc.t))

C13_Testigo ==
    /\ pc = "retorno"
    /\ i = 1
    /\ Len(osc.t) = 4
    /\ CortadoEn(osc, 3)

====
